---- MODULE Spec2Model ----
(***************************************************************************)
(* Model of the FNOL claims processing agent (src/claims_processor.py).    *)
(*                                                                         *)
(* Python values are tagged records: None, str and float.  A str is a      *)
(* sequence of tokens; a token is either a whitespace character or a run   *)
(* of non-whitespace characters.  A float that the estimate pattern can    *)
(* produce has at most two decimals, so it is kept exactly as a number of  *)
(* cents.  A dict is a function whose DOMAIN is its key set.               *)
(***************************************************************************)
EXTENDS Integers, Sequences, FiniteSets, TLC

VARIABLES attrs, pc, doc, extracted, flattened, missing, result, call, ret

vars == <<attrs, pc, doc, extracted, flattened, missing, result, call, ret>>

(***************************************************************************)
(* Python values                                                           *)
(***************************************************************************)
None == [t |-> "None"]

Str(s) == [t |-> "str", v |-> s]

Float(c) == [t |-> "float", v |-> c]

EmptyDict == [k \in {} |-> None]

\* bool(v): None, '' and 0.0 are falsy
Truthy(v) ==
    CASE v.t = "None" -> FALSE
      [] v.t = "str" -> v.v # <<>>
      [] v.t = "float" -> v.v # 0

\* d.get(k)
Get(d, k) == IF k \in DOMAIN d THEN d[k] ELSE None

\* d.get(k, default)
GetDefault(d, k, default) == IF k \in DOMAIN d THEN d[k] ELSE default

(***************************************************************************)
(* str operations on token sequences                                       *)
(***************************************************************************)
Whitespace == {" ", "\n", "\t"}

\* str.lower() of one token: the cased tokens of the vocabulary
LowerTable ==
    [tk \in {"Staged", "STAGED", "SUSPICIOUS", "Fraud", "Injured", "HOSPITAL",
             "Damage", "Damaged", "PROPERTY", "Collision", "ACCIDENT",
             "DESCRIPTION", "OF", "Rear", "ABC"} |->
        CASE tk = "Staged" -> "staged"
          [] tk = "STAGED" -> "staged"
          [] tk = "SUSPICIOUS" -> "suspicious"
          [] tk = "Fraud" -> "fraud"
          [] tk = "Injured" -> "injured"
          [] tk = "HOSPITAL" -> "hospital"
          [] tk = "Damage" -> "damage"
          [] tk = "Damaged" -> "damaged"
          [] tk = "PROPERTY" -> "property"
          [] tk = "Collision" -> "collision"
          [] tk = "ACCIDENT" -> "accident"
          [] tk = "DESCRIPTION" -> "description"
          [] tk = "OF" -> "of"
          [] tk = "Rear" -> "rear"
          [] tk = "ABC" -> "abc"]

\* the keyword a token contains as a proper substring (case-sensitive)
Embedded ==
    [tk \in {"fraudulent", "damaged", "accidental", "unstaged"} |->
        CASE tk = "fraudulent" -> "fraud"
          [] tk = "damaged" -> "damage"
          [] tk = "accidental" -> "accident"
          [] tk = "unstaged" -> "staged"]

LowerTok(tk) == IF tk \in DOMAIN LowerTable THEN LowerTable[tk] ELSE tk

\* s.lower()
Lower(s) == [i \in 1..Len(s) |-> LowerTok(s[i])]

\* keyword in s   (keywords are single words, so an occurrence lies in one token)
KeywordIn(keyword, s) ==
    \E i \in 1..Len(s) :
        \/ s[i] = keyword
        \/ s[i] \in DOMAIN Embedded /\ Embedded[s[i]] = keyword

RECURSIVE Concat(_)
\* ''.join(parts)
Concat(parts) ==
    IF parts = <<>> THEN <<>> ELSE Head(parts) \o Concat(Tail(parts))

RECURSIVE JoinWith(_, _)
\* sep.join(parts) for token sequences
JoinWith(sep, parts) ==
    IF parts = <<>> THEN <<>>
    ELSE IF Len(parts) = 1 THEN parts[1]
    ELSE parts[1] \o sep \o JoinWith(sep, Tail(parts))

RECURSIVE LStrip(_)
LStrip(s) ==
    IF s # <<>> /\ Head(s) \in Whitespace THEN LStrip(Tail(s)) ELSE s

RECURSIVE RStrip(_)
RStrip(s) ==
    IF s # <<>> /\ s[Len(s)] \in Whitespace THEN RStrip(SubSeq(s, 1, Len(s) - 1)) ELSE s

\* s.strip()
Strip(s) == RStrip(LStrip(s))

RECURSIVE SplitFrom(_, _, _)
\* s.split(): the maximal runs of non-whitespace tokens, in order
SplitFrom(s, cur, acc) ==
    IF s = <<>> THEN (IF cur = <<>> THEN acc ELSE Append(acc, cur))
    ELSE IF Head(s) \in Whitespace
         THEN SplitFrom(Tail(s), <<>>, IF cur = <<>> THEN acc ELSE Append(acc, cur))
         ELSE SplitFrom(Tail(s), Append(cur, Head(s)), acc)

Split(s) == SplitFrom(s, <<>>, <<>>)

RECURSIVE Remove(_, _)
\* s.replace(tk, '') for a one-character token
Remove(s, tk) ==
    IF s = <<>> THEN <<>>
    ELSE IF Head(s) = tk THEN Remove(Tail(s), tk)
    ELSE <<Head(s)>> \o Remove(Tail(s), tk)

RECURSIVE JoinStrings(_, _)
\* sep.join(names) for a list of plain strings
JoinStrings(sep, names) ==
    IF names = <<>> THEN ""
    ELSE IF Len(names) = 1 THEN names[1]
    ELSE names[1] \o sep \o JoinStrings(sep, Tail(names))

(***************************************************************************)
(* Class constants                                                         *)
(***************************************************************************)
MANDATORY_FIELDS ==
    <<"policy_number", "policyholder_name", "date_of_loss", "location_of_loss",
      "description_of_accident", "claim_type">>

FAST_TRACK_THRESHOLD == 25000

FRAUD_KEYWORDS == <<"fraud", "inconsistent", "staged", "suspicious", "fabricated">>

\* the attributes __init__ sets on the instance
InitAttrs ==
    [extracted_data |-> EmptyDict, missing_fields |-> <<>>, route |-> "", reasoning |-> ""]

(***************************************************************************)
(* Text and regular expressions.  A text is a sequence of segments; a     *)
(* segment is a place where the pattern named by its site matches, with   *)
(* the raw text of its capturing groups, or free text (site "text").      *)
(***************************************************************************)
NoMatch == [t |-> "None"]

Segment(site, g1, g2) == [site |-> site, g1 |-> g1, g2 |-> g2]

\* re.search(pattern, text): the first match in document order
re_search(pattern, text) ==
    IF \E i \in 1..Len(text) : text[i].site = pattern
    THEN LET i == CHOOSE j \in 1..Len(text) :
                    /\ text[j].site = pattern
                    /\ \A k \in 1..(j - 1) : text[k].site # pattern
         IN [t |-> "match", g1 |-> text[i].g1, g2 |-> text[i].g2]
    ELSE NoMatch

\* the literal text a pattern is anchored on
AnchorText(site) ==
    CASE site = "text" -> <<>>
      [] site = "description" -> <<"DESCRIPTION", " ", "OF", " ", "ACCIDENT", " ">>
      [] OTHER -> <<site, " ">>

RECURSIVE Tokens(_)
\* the characters of a text, for the substring tests of the classifier
Tokens(text) ==
    IF text = <<>> THEN <<>>
    ELSE AnchorText(Head(text).site) \o Head(text).g1 \o Head(text).g2 \o <<"\n">>
         \o Tokens(Tail(text))

\* an extractor that trims the value but keeps its inner whitespace
extract_field_strip_only(text, pattern) ==
    LET match == re_search(pattern, text) IN
    IF match # NoMatch
    THEN LET value == Strip(match.g1)
         IN IF value # <<>> THEN Str(value) ELSE None
    ELSE None

\* _extract_field(text, pattern)
extract_field(text, pattern) ==
    LET match == re_search(pattern, text) IN
    IF match # NoMatch
    THEN LET stripped == Strip(match.g1)
             value == JoinWith(<<" ">>, Split(stripped))
         IN IF value # <<>> THEN Str(value) ELSE None
    ELSE None

\* a classifier that tests the damage terms before the injury terms
determine_claim_type_damage_first(text) ==
    LET text_lower == Lower(text)
        injury_keywords == <<"injury", "injured", "hospital", "medical", "ambulance", "bodily">>
    IN IF KeywordIn("property", text_lower) \/ KeywordIn("damage", text_lower)
       THEN "property_damage"
       ELSE IF \E i \in 1..Len(injury_keywords) : KeywordIn(injury_keywords[i], text_lower)
       THEN "injury"
       ELSE IF KeywordIn("collision", text_lower) \/ KeywordIn("accident", text_lower)
       THEN "collision"
       ELSE "auto"

\* _determine_claim_type(text), text a str
determine_claim_type(text) ==
    LET text_lower == Lower(text)
        injury_keywords == <<"injury", "injured", "hospital", "medical", "ambulance", "bodily">>
    IN IF \E i \in 1..Len(injury_keywords) : KeywordIn(injury_keywords[i], text_lower)
       THEN "injury"
       ELSE IF KeywordIn("property", text_lower) \/ KeywordIn("damage", text_lower)
       THEN "property_damage"
       ELSE IF KeywordIn("collision", text_lower) \/ KeywordIn("accident", text_lower)
       THEN "collision"
       ELSE "auto"

(***************************************************************************)
(* float() and number formatting                                           *)
(***************************************************************************)
Digits == <<"0", "1", "2", "3", "4", "5", "6", "7", "8", "9">>

IsDigit(ch) == \E i \in 1..10 : Digits[i] = ch

DigitVal(ch) == (CHOOSE i \in 1..10 : Digits[i] = ch) - 1

RECURSIVE DigitsVal(_, _)
\* the number a run of digit characters denotes
DigitsVal(s, acc) ==
    IF s = <<>> THEN acc ELSE DigitsVal(Tail(s), acc * 10 + DigitVal(Head(s)))

\* float(s), in cents, for the strings the estimate pattern captures with the
\* commas removed: digits, then optionally a point and two digits.
\* float('') raises ValueError.
ParseFloat(s) ==
    IF \E i \in 1..Len(s) : s[i] = "."
    THEN LET dot == CHOOSE i \in 1..Len(s) : s[i] = "."
         IN [ok |-> TRUE,
             cents |-> DigitsVal(SubSeq(s, 1, dot - 1), 0) * 100
                       + DigitsVal(SubSeq(s, dot + 1, Len(s)), 0)]
    ELSE IF s = <<>> THEN [ok |-> FALSE, cents |-> 0]
    ELSE [ok |-> TRUE, cents |-> DigitsVal(s, 0) * 100]

Pad(n, width) ==
    IF width = 3 /\ n < 10 THEN "00" \o ToString(n)
    ELSE IF width = 3 /\ n < 100 THEN "0" \o ToString(n)
    ELSE IF width = 2 /\ n < 10 THEN "0" \o ToString(n)
    ELSE ToString(n)

RECURSIVE FormatGrouped(_)
\* format(n, ','), n a non-negative integer
FormatGrouped(n) ==
    IF n < 1000 THEN ToString(n)
    ELSE FormatGrouped(n \div 1000) \o "," \o Pad(n % 1000, 3)

\* format(x, ',.2f'), x given in cents
FormatMoney(cents) == FormatGrouped(cents \div 100) \o "." \o Pad(cents % 100, 2)

(***************************************************************************)
(* Text acquisition.  A document is [open_ok, pages]; a page is the text   *)
(* page.extract_text() returns, or NoText when it returns None.            *)
(***************************************************************************)
NoText == <<[site |-> "None", g1 |-> <<>>, g2 |-> <<>>]>>

\* pdfplumber.open raises, or  full_text += None + "\n"  raises TypeError
AcquisitionFails(d) ==
    \/ ~d.open_ok
    \/ \E i \in 1..Len(d.pages) : d.pages[i] = NoText

\* full_text after the loop over pdf.pages
FullText(d) == Concat(d.pages)

EmptyExtracted ==
    [policy_information |-> EmptyDict, incident_information |-> EmptyDict,
     involved_parties |-> EmptyDict, asset_details |-> EmptyDict,
     other_fields |-> EmptyDict]

\* the key, when the condition holds
KeyIf(cond, k, v) == IF cond THEN k :> v ELSE EmptyDict

\* ' '.join(filter(None, values))
JoinTruthy(values) ==
    JoinWith(<<" ">>, [i \in 1..Len(SelectSeq(values, Truthy)) |-> SelectSeq(values, Truthy)[i].v])

\* the body of the try block of extract_from_pdf, on the acquired text
ExtractAll(full_text) ==
    LET effective_date == extract_field(full_text, "effective_date")
        time_match == re_search("time", full_text)
        street == extract_field(full_text, "street")
        city_state_zip == extract_field(full_text, "city_state_zip")
        location_parts ==
            (IF Truthy(street) /\ Strip(street.v) # <<>> THEN <<Strip(street.v)>> ELSE <<>>)
            \o (IF Truthy(city_state_zip) /\ Strip(city_state_zip.v) # <<>>
                THEN <<Strip(city_state_zip.v)>> ELSE <<>>)
        phone_match == re_search("phone", full_text)
        vehicle_year == extract_field(full_text, "vehicle_year")
        vehicle_make == extract_field(full_text, "vehicle_make")
        vehicle_model == extract_field(full_text, "vehicle_model")
        estimate == extract_field(full_text, "estimate")
        estimate_clean == Remove(estimate.v, ",")
    IN
    [policy_information |->
        ("policy_number" :> extract_field(full_text, "policy_number"))
        @@ ("policyholder_name" :> extract_field(full_text, "policyholder_name"))
        @@ KeyIf(Truthy(effective_date), "effective_date", effective_date),
     incident_information |->
        ("date_of_loss" :> extract_field(full_text, "date_of_loss"))
        @@ KeyIf(time_match # NoMatch, "time",
                 Str(time_match.g1 \o <<" ">> \o time_match.g2))
        @@ ("location" :> IF location_parts # <<>>
                          THEN Str(JoinWith(<<",", " ">>, location_parts)) ELSE None)
        @@ ("description" :> extract_field(full_text, "description")),
     involved_parties |->
        ("claimant" :> extract_field(full_text, "claimant"))
        @@ ("driver_name" :> extract_field(full_text, "driver_name"))
        @@ KeyIf(phone_match # NoMatch, "contact_phone", Str(phone_match.g1))
        @@ ("contact_email" :> extract_field(full_text, "email")),
     asset_details |->
        ("asset_type" :> Str(<<"vehicle">>))
        @@ KeyIf(Truthy(vehicle_year) \/ Truthy(vehicle_make) \/ Truthy(vehicle_model),
                 "vehicle_description",
                 Str(JoinTruthy(<<vehicle_year, vehicle_make, vehicle_model>>)))
        @@ ("asset_id" :> extract_field(full_text, "vin"))
        @@ KeyIf(Truthy(estimate), "estimated_damage",
                 IF ParseFloat(estimate_clean).ok
                 THEN Float(ParseFloat(estimate_clean).cents) ELSE None),
     other_fields |->
        ("claim_type" :> Str(<<determine_claim_type(Tokens(full_text))>>))
        @@ ("line_of_business" :> extract_field(full_text, "line_of_business"))
        @@ ("naic_code" :> extract_field(full_text, "naic_code"))]

\* an extractor that skips the pages without text instead of failing on them
extract_from_pdf_skip_unreadable(d) ==
    IF ~d.open_ok THEN EmptyExtracted
    ELSE LET Readable_(page) == page # NoText IN ExtractAll(Concat(SelectSeq(d.pages, Readable_)))

\* an extractor in which the ValueError of float() reaches the outer handler,
\* so that the fields assembled after the estimate are never set
extract_from_pdf_estimate_aborts(d) ==
    IF AcquisitionFails(d) THEN EmptyExtracted
    ELSE LET estimate == extract_field(FullText(d), "estimate") IN
         IF Truthy(estimate) /\ ~ParseFloat(Remove(estimate.v, ",")).ok
         THEN [ExtractAll(FullText(d)) EXCEPT
                  !.asset_details = [k \in DOMAIN @ \ {"estimated_damage"} |-> @[k]],
                  !.other_fields = EmptyDict]
         ELSE ExtractAll(FullText(d))

\* extract_from_pdf(pdf_path): an exception inside the try block is printed
\* and swallowed, and the dictionary built so far is returned
extract_from_pdf(d) ==
    IF AcquisitionFails(d) THEN EmptyExtracted ELSE ExtractAll(FullText(d))

(***************************************************************************)
(* flatten_extracted_data, validate_fields, route_claim                    *)
(***************************************************************************)
FlatKeys ==
    <<"policy_number", "policyholder_name", "effective_date", "date_of_loss",
      "time_of_loss", "location_of_loss", "description_of_accident", "claimant",
      "driver_name", "contact_phone", "contact_email", "asset_type", "asset_id",
      "vehicle_description", "estimated_damage", "claim_type", "line_of_business",
      "naic_code">>

\* where each flat key comes from: section and key of the nested dictionary
FlatSource ==
    <<<<"policy_information", "policy_number">>, <<"policy_information", "policyholder_name">>,
      <<"policy_information", "effective_date">>, <<"incident_information", "date_of_loss">>,
      <<"incident_information", "time">>, <<"incident_information", "location">>,
      <<"incident_information", "description">>, <<"involved_parties", "claimant">>,
      <<"involved_parties", "driver_name">>, <<"involved_parties", "contact_phone">>,
      <<"involved_parties", "contact_email">>, <<"asset_details", "asset_type">>,
      <<"asset_details", "asset_id">>, <<"asset_details", "vehicle_description">>,
      <<"asset_details", "estimated_damage">>, <<"other_fields", "claim_type">>,
      <<"other_fields", "line_of_business">>, <<"other_fields", "naic_code">>>>

\* a flattening that copies only the keys the nested dictionaries have
flatten_present_only(e) ==
    LET present == {i \in 1..Len(FlatKeys) : FlatSource[i][2] \in DOMAIN e[FlatSource[i][1]]} IN
    [k \in {FlatKeys[i] : i \in present} |->
        LET i == CHOOSE j \in present : FlatKeys[j] = k IN e[FlatSource[i][1]][FlatSource[i][2]]]

\* flatten_extracted_data(extracted): every key is assigned from a .get()
flatten_extracted_data(e) ==
    ("policy_number" :> Get(e.policy_information, "policy_number"))
    @@ ("policyholder_name" :> Get(e.policy_information, "policyholder_name"))
    @@ ("effective_date" :> Get(e.policy_information, "effective_date"))
    @@ ("date_of_loss" :> Get(e.incident_information, "date_of_loss"))
    @@ ("time_of_loss" :> Get(e.incident_information, "time"))
    @@ ("location_of_loss" :> Get(e.incident_information, "location"))
    @@ ("description_of_accident" :> Get(e.incident_information, "description"))
    @@ ("claimant" :> Get(e.involved_parties, "claimant"))
    @@ ("driver_name" :> Get(e.involved_parties, "driver_name"))
    @@ ("contact_phone" :> Get(e.involved_parties, "contact_phone"))
    @@ ("contact_email" :> Get(e.involved_parties, "contact_email"))
    @@ ("asset_type" :> Get(e.asset_details, "asset_type"))
    @@ ("asset_id" :> Get(e.asset_details, "asset_id"))
    @@ ("vehicle_description" :> Get(e.asset_details, "vehicle_description"))
    @@ ("estimated_damage" :> Get(e.asset_details, "estimated_damage"))
    @@ ("claim_type" :> Get(e.other_fields, "claim_type"))
    @@ ("line_of_business" :> Get(e.other_fields, "line_of_business"))
    @@ ("naic_code" :> Get(e.other_fields, "naic_code"))

\* a validator that tests "is None" where the code tests falsiness
FieldIsMissing_NoneOnly(flattened_data, field) == Get(flattened_data, field) = None

\* the test of the loop of validate_fields
FieldIsMissing(flattened_data, field) == ~Truthy(Get(flattened_data, field))

RECURSIVE ValidateFrom(_, _, _)
\* the loop of validate_fields from the i-th mandatory field on
ValidateFrom(flattened_data, i, acc) ==
    IF i > Len(MANDATORY_FIELDS) THEN acc
    ELSE ValidateFrom(flattened_data, i + 1,
            IF FieldIsMissing(flattened_data, MANDATORY_FIELDS[i])
            THEN Append(acc, MANDATORY_FIELDS[i]) ELSE acc)

\* validate_fields(flattened_data)
validate_fields(flattened_data) == ValidateFrom(flattened_data, 1, <<>>)

Returned(route, reasons) ==
    [exc |-> "none", route |-> route, reasoning |-> JoinStrings("; ", reasons)]

Raised(exc) == [exc |-> exc, route |-> "", reasoning |-> ""]

\* a fraud gate that reads the policyholder name along with the description
DescriptionOf_with_name(flattened_data) ==
    LET d == GetDefault(flattened_data, "description_of_accident", Str(<<>>))
        n == Get(flattened_data, "policyholder_name")
    IN IF d.t = "str" /\ n.t = "str" THEN Str(d.v \o <<" ">> \o n.v) ELSE d

\* line 294: flattened_data.get('description_of_accident', '')
DescriptionOf(flattened_data) ==
    GetDefault(flattened_data, "description_of_accident", Str(<<>>))

\* Rule 4 of route_claim
DamageGate(flattened_data) ==
    LET estimated_damage == Get(flattened_data, "estimated_damage") IN
    IF estimated_damage # None
    THEN IF estimated_damage.v < FAST_TRACK_THRESHOLD * 100
         THEN Returned("Fast-Track",
                <<"Estimated damage ($" \o FormatMoney(estimated_damage.v)
                  \o ") is below fast-track threshold ($"
                  \o FormatGrouped(FAST_TRACK_THRESHOLD) \o ")">>)
         ELSE Returned("Standard Processing",
                <<"Estimated damage ($" \o FormatMoney(estimated_damage.v)
                  \o ") exceeds fast-track threshold ($"
                  \o FormatGrouped(FAST_TRACK_THRESHOLD) \o ")">>)
    ELSE Returned("Manual Review", <<"Estimated damage amount is missing or invalid">>)

\* a routing that tests the fraud gate before the completeness gate
route_claim_fraud_first(flattened_data, missing_fields) ==
    LET d == DescriptionOf(flattened_data) IN
    IF d.t = "str" /\ \E i \in 1..Len(FRAUD_KEYWORDS) : KeywordIn(FRAUD_KEYWORDS[i], Lower(d.v))
    THEN Returned("Investigation Queue", <<"Description contains potential fraud indicators">>)
    ELSE IF missing_fields # <<>>
    THEN Returned("Manual Review",
            <<"Missing mandatory fields: " \o JoinStrings(", ", missing_fields)>>)
    ELSE IF d.t # "str" THEN Raised("AttributeError")
    ELSE IF Get(flattened_data, "claim_type") = Str(<<"injury">>)
    THEN Returned("Specialist Queue", <<"Claim involves injury and requires specialist review">>)
    ELSE DamageGate(flattened_data)

\* a routing whose reasoning names the first missing field only
route_claim_first_missing_only(flattened_data, missing_fields) ==
    IF missing_fields # <<>>
    THEN Returned("Manual Review", <<"Missing mandatory fields: " \o missing_fields[1]>>)
    ELSE route_claim_fraud_first(flattened_data, missing_fields)

\* route_claim(flattened_data, missing_fields): None has no lower(), so a
\* description that is present with the value None raises AttributeError
route_claim(flattened_data, missing_fields) ==
    IF missing_fields # <<>>
    THEN Returned("Manual Review",
            <<"Missing mandatory fields: " \o JoinStrings(", ", missing_fields)>>)
    ELSE LET d == DescriptionOf(flattened_data) IN
         IF d.t # "str" THEN Raised("AttributeError")
         ELSE LET description == Lower(d.v) IN
              IF \E i \in 1..Len(FRAUD_KEYWORDS) : KeywordIn(FRAUD_KEYWORDS[i], description)
              THEN Returned("Investigation Queue",
                      <<"Description contains potential fraud indicators">>)
              ELSE IF Get(flattened_data, "claim_type") = Str(<<"injury">>)
              THEN Returned("Specialist Queue",
                      <<"Claim involves injury and requires specialist review">>)
              ELSE DamageGate(flattened_data)

(***************************************************************************)
(* Documents                                                               *)
(***************************************************************************)
\* a pattern without a match site in the document
Absent == None

\* a match site of the pattern, when the document has one
Site(pattern, raw) == IF raw = Absent THEN <<>> ELSE <<Segment(pattern, raw.v, <<>>)>>

\* the sites of the patterns no mandatory field depends on
OptionalSites ==
    <<Segment("effective_date", <<"01/01/2024">>, <<>>),
      Segment("time", <<"10:30">>, <<"AM">>),
      Segment("driver_name", <<"Jane", " ", "Doe">>, <<>>),
      Segment("phone", <<"555-123-4567">>, <<>>),
      Segment("email", <<"john@example.com">>, <<>>),
      Segment("vehicle_year", <<"2020">>, <<>>),
      Segment("vehicle_model", <<"Civic", " ">>, <<>>),
      Segment("vin", <<"1HGBH41JXMN109186">>, <<>>),
      Segment("line_of_business", <<"AUTO">>, <<>>),
      Segment("naic_code", <<"12345">>, <<>>)>>

\* one page of text built from the raw captures chosen in c
PageOf(c) ==
    Site("policy_number", c.policy)
    \o Site("policyholder_name", c.name)
    \o Site("claimant", c.name)
    \o Site("date_of_loss", c.date)
    \o Site("street", c.street)
    \o Site("city_state_zip", c.city)
    \o Site("description", c.desc)
    \o Site("estimate", c.est)
    \o (IF c.opt THEN OptionalSites ELSE <<>>)
    \o Site("text", c.extra)

PolicyChoices == {Absent, Str(<<"ABC-123">>)}

NameChoices == {Absent, Str(<<" ">>), Str(<<"John", " ", " ", "Doe", " ">>)}

DateChoices == {Absent, Str(<<"03/15/2024">>)}

StreetChoices == {Absent, Str(<<"12", " ", "Main", " ", "St">>)}

CityChoices == {Absent, Str(<<"Austin,", " ", "TX", "\t">>)}

DescChoices ==
    {Absent,
     Str(<<"Rear", " ", "ended", "\n", "at", " ", "light">>),
     Str(<<"Looks", " ", "STAGED">>),
     Str(<<"Driver", " ", "taken", " ", "to", " ", "HOSPITAL">>),
     Str(<<"Damaged", " ", "bumper">>)}

EstimateChoices ==
    {Absent, Str(<<",">>), Str(<<"0">>), Str(<<"2", "4", ",", "9", "9", "9", ".", "9", "9">>),
     Str(<<"2", "5", ",", "0", "0", "0", ".", "0", "0">>), Str(<<"5", "0", "0", "0", "0">>),
     Str(<<"1", "0", ",", "0", "0", "0", ".", "0", "0">>)}

ExtraChoices == {Absent, Str(<<"Injured", " ", "passenger">>)}

\* which of the date, street, city and optional sites a document has
Layouts ==
    {[date |-> d, street |-> s, city |-> c, opt |-> o] :
        d \in DateChoices, s \in StreetChoices, c \in CityChoices, o \in BOOLEAN}

AllChoices ==
    {[policy |-> p, name |-> n, date |-> l.date, street |-> l.street, city |-> l.city,
      desc |-> d, est |-> e, opt |-> l.opt, extra |-> x] :
        p \in PolicyChoices, n \in NameChoices, d \in DescChoices, e \in EstimateChoices,
        x \in ExtraChoices,
        l \in {y \in Layouts : (y.date = Absent) = (y.city = Absent /\ y.street # Absent)
                                /\ (y.opt = (y.street = Absent))}}

\* the choices of the documents several workers process at once
SharedChoices ==
    [policy : PolicyChoices, name : {Str(<<"John", " ", " ", "Doe", " ">>)},
     date : {Str(<<"03/15/2024">>)}, street : {Absent}, city : {Str(<<"Austin,", " ", "TX", "\t">>)},
     desc : {Absent, Str(<<"Rear", " ", "ended", "\n", "at", " ", "light">>), Str(<<"Looks", " ", "STAGED">>)},
     est : {Absent, Str(<<"2", "4", ",", "9", "9", "9", ".", "9", "9">>), Str(<<"5", "0", "0", "0", "0">>)},
     opt : {TRUE}, extra : {Absent}]

Readable(c) == [open_ok |-> TRUE, pages |-> <<PageOf(c)>>]

CompleteChoice ==
    [policy |-> Str(<<"ABC-123">>), name |-> Str(<<"John", " ", " ", "Doe", " ">>),
     date |-> Str(<<"03/15/2024">>), street |-> Str(<<"12", " ", "Main", " ", "St">>),
     city |-> Str(<<"Austin,", " ", "TX", "\t">>),
     desc |-> Str(<<"Rear", " ", "ended", "\n", "at", " ", "light">>),
     est |-> Str(<<"5", "0", "0", "0", "0">>), opt |-> TRUE, extra |-> Absent]

\* documents whose text cannot be acquired
Unreadable ==
    {[open_ok |-> FALSE, pages |-> <<PageOf(CompleteChoice)>>],
     [open_ok |-> TRUE, pages |-> <<PageOf(CompleteChoice), NoText>>],
     [open_ok |-> TRUE, pages |-> <<NoText>>]}

\* a document of two pages, one whose only page has the empty text, and one
\* without pages
OtherDocs ==
    {[open_ok |-> TRUE,
      pages |-> <<Site("policy_number", Str(<<"XYZ-999">>)), PageOf(CompleteChoice)>>],
     [open_ok |-> TRUE, pages |-> << <<>> >>],
     [open_ok |-> TRUE, pages |-> <<>>]}

AllDocs == {Readable(c) : c \in AllChoices} \cup Unreadable \cup OtherDocs

SharedDocs == {Readable(c) : c \in SharedChoices} \cup Unreadable

(***************************************************************************)
(* Arguments of direct calls of the methods                                *)
(***************************************************************************)
MaxMissing == 2

MaxTextLen == 3

\* a key the dictionary does not have
NoKey == [t |-> "nokey"]

ClaimTypes == {"injury", "property_damage", "collision", "auto"}

Routes ==
    {"Manual Review", "Investigation Queue", "Specialist Queue", "Fast-Track",
     "Standard Processing"}

RouteDescriptions ==
    {NoKey, None, Str(<<>>), Str(<<"Rear", " ", "ended">>), Str(<<"Looks", " ", "STAGED">>),
     Str(<<"fraudulent", " ", "claim">>), Str(<<"Injured", " ", "driver">>)}

RouteClaimTypes == {NoKey, None} \cup {Str(<<c>>) : c \in ClaimTypes}

RouteDamages ==
    {NoKey, None, Float(0), Float(FAST_TRACK_THRESHOLD * 100 - 1),
     Float(FAST_TRACK_THRESHOLD * 100), Float(FAST_TRACK_THRESHOLD * 100 + 1),
     Float(123456789)}

RouteNames == {NoKey, None, Str(<<"staged">>)}

\* the fields in S, in declaration order
MissingOf(S) == LET In(f) == f \in S IN SelectSeq(MANDATORY_FIELDS, In)

MissingLists ==
    {MissingOf(S) : S \in {T \in SUBSET {MANDATORY_FIELDS[i] : i \in 1..Len(MANDATORY_FIELDS)} :
                              Cardinality(T) <= MaxMissing}}
    \cup {<<"estimated_damage">>, <<"claim_type", "policy_number">>}

DictOf(keys, values) ==
    LET present == {i \in 1..Len(keys) : values[i] # NoKey} IN
    [k \in {keys[i] : i \in present} |-> values[CHOOSE i \in present : keys[i] = k]]

RouteCalls ==
    {[op |-> "route_claim",
      flattened_data |-> DictOf(<<"description_of_accident", "claim_type",
                                  "estimated_damage", "policyholder_name">>,
                                <<d, c, e, n>>),
      missing_fields |-> m] :
        d \in RouteDescriptions, c \in RouteClaimTypes, e \in RouteDamages,
        n \in RouteNames, m \in MissingLists}

FieldValues == {NoKey, None, Str(<<>>), Str(<<" ">>), Str(<<"x">>)}

ValidateCalls ==
    {[op |-> "validate_fields",
      flattened_data |-> DictOf(MANDATORY_FIELDS \o <<"naic_code">>, v \o <<None>>)] :
        v \in [1..Len(MANDATORY_FIELDS) -> FieldValues]}

ClassifyVocabulary ==
    {"injury", "Injured", "injured", "HOSPITAL", "medical", "ambulance", "bodily",
     "PROPERTY", "property", "Damage", "damage", "Damaged", "damaged", "Collision",
     "ACCIDENT", "accident", "accidental", "Rear", " "}

MaxRawLen == 4

MaxSegments == 2

\* the raw texts a capturing group may hold
RawTexts == UNION {[1..n -> {" ", "\n", "a", "b"}] : n \in 0..MaxRawLen}

\* texts in which the pattern "p" matches at no, one or several places
BaseTexts ==
    UNION {[1..n -> {Segment("text", <<"b">>, <<>>), Segment("p", <<" ">>, <<>>)}] :
              n \in 0..MaxSegments}

\* the same texts with any raw text captured at one of the places
ExtractTexts ==
    BaseTexts \cup
    {[t EXCEPT ![i] = Segment("p", raw, <<>>)] :
        t \in BaseTexts \ {<<>>}, i \in 1..MaxSegments, raw \in RawTexts}

ExtractCalls == {[op |-> "extract_field", text |-> t, pattern |-> "p"] : t \in ExtractTexts}

ClassifyCalls ==
    {[op |-> "determine_claim_type", text |-> t] :
        t \in UNION {[1..n -> ClassifyVocabulary] : n \in 0..MaxTextLen}}

(***************************************************************************)
(* The state machine                                                       *)
(***************************************************************************)
Unset == [t |-> "unset"]

NoCall == [op |-> "none"]

\* an instance on which route_claim keeps its decision
SelfAfter_storing(self, method, value) ==
    IF method = "route_claim"
    THEN [self EXCEPT !.route = value.route, !.reasoning = value.reasoning]
    ELSE self

\* the instance after a method ran: the methods assign to locals only
SelfAfter(self, method, value) == self

InitFor(workers, calls) ==
    /\ attrs = InitAttrs
    /\ pc = [w \in workers |-> "idle"]
    /\ doc = [w \in workers |-> Unset]
    /\ extracted = [w \in workers |-> Unset]
    /\ flattened = [w \in workers |-> Unset]
    /\ missing = [w \in workers |-> Unset]
    /\ result = [w \in workers |-> Unset]
    /\ call \in calls
    /\ ret = Unset

\* process_claim(pdf_path) is called
Start(w, docs) ==
    /\ pc[w] \in {"idle", "done", "raised"}
    /\ \E d \in docs : doc' = [doc EXCEPT ![w] = d]
    /\ pc' = [pc EXCEPT ![w] = "extract"]
    /\ extracted' = [extracted EXCEPT ![w] = Unset]
    /\ flattened' = [flattened EXCEPT ![w] = Unset]
    /\ missing' = [missing EXCEPT ![w] = Unset]
    /\ result' = [result EXCEPT ![w] = Unset]
    /\ UNCHANGED <<attrs, call, ret>>

\* extracted = self.extract_from_pdf(pdf_path)
Extract(w) ==
    /\ pc[w] = "extract"
    /\ extracted' = [extracted EXCEPT ![w] = extract_from_pdf(doc[w])]
    /\ attrs' = SelfAfter(attrs, "extract_from_pdf", extracted'[w])
    /\ pc' = [pc EXCEPT ![w] = "flatten"]
    /\ UNCHANGED <<doc, flattened, missing, result, call, ret>>

\* flattened = self.flatten_extracted_data(extracted)
Flatten(w) ==
    /\ pc[w] = "flatten"
    /\ flattened' = [flattened EXCEPT ![w] = flatten_extracted_data(extracted[w])]
    /\ attrs' = SelfAfter(attrs, "flatten_extracted_data", flattened'[w])
    /\ pc' = [pc EXCEPT ![w] = "validate"]
    /\ UNCHANGED <<doc, extracted, missing, result, call, ret>>

\* missing = self.validate_fields(flattened)
Validate(w) ==
    /\ pc[w] = "validate"
    /\ missing' = [missing EXCEPT ![w] = validate_fields(flattened[w])]
    /\ attrs' = SelfAfter(attrs, "validate_fields", missing'[w])
    /\ pc' = [pc EXCEPT ![w] = "route"]
    /\ UNCHANGED <<doc, extracted, flattened, result, call, ret>>

\* route, reasoning = self.route_claim(flattened, missing); the result is
\* assembled and returned, or the exception of route_claim propagates
Route(w) ==
    /\ pc[w] = "route"
    /\ LET r == route_claim(flattened[w], missing[w]) IN
       /\ attrs' = SelfAfter(attrs, "route_claim", r)
       /\ IF r.exc = "none"
          THEN /\ result' = [result EXCEPT ![w] =
                      [extractedFields |-> flattened[w], missingFields |-> missing[w],
                       recommendedRoute |-> r.route, reasoning |-> r.reasoning]]
               /\ pc' = [pc EXCEPT ![w] = "done"]
          ELSE /\ result' = result
               /\ pc' = [pc EXCEPT ![w] = "raised"]
    /\ UNCHANGED <<doc, extracted, flattened, missing, call, ret>>

\* a direct call processor.route_claim(flattened_data, missing_fields)
CallRouteClaim ==
    /\ call.op = "route_claim"
    /\ ret = Unset
    /\ ret' = route_claim(call.flattened_data, call.missing_fields)
    /\ attrs' = SelfAfter(attrs, "route_claim", ret')
    /\ UNCHANGED <<pc, doc, extracted, flattened, missing, result, call>>

\* a direct call processor.validate_fields(flattened_data)
CallValidateFields ==
    /\ call.op = "validate_fields"
    /\ ret = Unset
    /\ ret' = [missing |-> validate_fields(call.flattened_data)]
    /\ attrs' = SelfAfter(attrs, "validate_fields", ret'.missing)
    /\ UNCHANGED <<pc, doc, extracted, flattened, missing, result, call>>

\* a direct call processor._determine_claim_type(text)
CallDetermineClaimType ==
    /\ call.op = "determine_claim_type"
    /\ ret = Unset
    /\ ret' = [claim_type |-> determine_claim_type(call.text)]
    /\ attrs' = SelfAfter(attrs, "determine_claim_type", ret'.claim_type)
    /\ UNCHANGED <<pc, doc, extracted, flattened, missing, result, call>>

\* a direct call processor._extract_field(text, pattern)
CallExtractField ==
    /\ call.op = "extract_field"
    /\ ret = Unset
    /\ ret' = [value |-> extract_field(call.text, call.pattern)]
    /\ attrs' = SelfAfter(attrs, "extract_field", ret'.value)
    /\ UNCHANGED <<pc, doc, extracted, flattened, missing, result, call>>

Workers == {"w1", "w2"}

\* several workers share one processor instance
Init == InitFor(Workers, {NoCall})

Next ==
    \E w \in Workers :
        \/ Start(w, SharedDocs)
        \/ Extract(w)
        \/ Flatten(w)
        \/ Validate(w)
        \/ Route(w)

Spec == Init /\ [][Next]_vars

\* one caller processes documents one after the other
InitDocs == InitFor({"w1"}, {NoCall})

NextDocs ==
    \/ Start("w1", AllDocs)
    \/ Extract("w1")
    \/ Flatten("w1")
    \/ Validate("w1")
    \/ Route("w1")

SpecDocs == InitDocs /\ [][NextDocs]_vars

\* the methods are called directly, on arbitrary arguments
InitCalls == InitFor({}, RouteCalls \cup ValidateCalls \cup ClassifyCalls \cup ExtractCalls)

NextCalls ==
    \/ CallRouteClaim
    \/ CallValidateFields
    \/ CallDetermineClaimType
    \/ CallExtractField

SpecCalls == InitCalls /\ [][NextCalls]_vars

(***************************************************************************)
(* What the specification says of the routing gates, stated on the         *)
(* arguments of a call                                                     *)
(***************************************************************************)
\* the description is a text in which a fraud keyword occurs, in any letter case
HasFraudKeyword(rec) ==
    LET d == Get(rec, "description_of_accident") IN
    /\ d.t = "str"
    /\ \E i \in 1..Len(d.v), k \in 1..Len(FRAUD_KEYWORDS) :
          \/ LowerTok(d.v[i]) = FRAUD_KEYWORDS[k]
          \/ LowerTok(d.v[i]) \in DOMAIN Embedded
             /\ Embedded[LowerTok(d.v[i])] = FRAUD_KEYWORDS[k]

IsInjury(rec) == Get(rec, "claim_type") = Str(<<"injury">>)

DamagePresent(rec) == Get(rec, "estimated_damage").t = "float"

\* the route of the damage-threshold gate
ThresholdRoute(rec) ==
    IF ~DamagePresent(rec) THEN "Manual Review"
    ELSE IF Get(rec, "estimated_damage").v < 25000 * 100 THEN "Fast-Track"
    ELSE "Standard Processing"

\* the first gate, in the order completeness, fraud, injury, damage, whose condition holds
FirstGate(rec, m) ==
    IF m # <<>> THEN "completeness"
    ELSE IF HasFraudKeyword(rec) THEN "fraud"
    ELSE IF IsInjury(rec) THEN "injury"
    ELSE "damage"

GateRoute(gate, rec) ==
    CASE gate = "completeness" -> "Manual Review"
      [] gate = "fraud" -> "Investigation Queue"
      [] gate = "injury" -> "Specialist Queue"
      [] gate = "damage" -> ThresholdRoute(rec)

FraudSentence == "Description contains potential fraud indicators"

InjurySentence == "Claim involves injury and requires specialist review"

DamageMissingSentence == "Estimated damage amount is missing or invalid"

CalledRoute == call.op = "route_claim" /\ ret # Unset

\* C1: route_claim is total: for every record and missing list, agreeing or
\* not, it returns without raising exactly one of the five routes and a
\* non-empty reasoning.
C1_RouteClaimTotal ==
    CalledRoute =>
        /\ ret.exc = "none"
        /\ ret.route \in Routes
        /\ ret.reasoning # ""

\* C2: the route returned is that of the first gate, in the order
\* completeness > fraud > injury > damage-threshold, whose condition holds,
\* and the reasoning holds no sentence of a later gate.
C2_FirstGateWins ==
    CalledRoute =>
        LET gate == FirstGate(call.flattened_data, call.missing_fields) IN
        /\ ret.exc = "none"
        /\ ret.route = GateRoute(gate, call.flattened_data)
        /\ gate = "fraud" => ret.reasoning = FraudSentence
        /\ gate = "injury" => ret.reasoning = InjurySentence
        /\ gate = "completeness" =>
              ret.reasoning \notin {FraudSentence, InjurySentence, DamageMissingSentence}

\* C3: when no earlier gate fires (missing empty, no fraud keyword in the
\* description, claim type not injury) the route is Fast-Track iff the damage
\* is present and below 25000, Standard Processing iff it is present and at
\* least 25000, and Manual Review iff it is absent.
C3_DamageThreshold ==
    (/\ CalledRoute
     /\ call.missing_fields = <<>>
     /\ ~HasFraudKeyword(call.flattened_data)
     /\ ~IsInjury(call.flattened_data)) =>
        LET rec == call.flattened_data
            e == Get(rec, "estimated_damage")
        IN /\ (ret.route = "Fast-Track") <=> (DamagePresent(rec) /\ e.v < 25000 * 100)
           /\ (ret.route = "Standard Processing") <=> (DamagePresent(rec) /\ e.v >= 25000 * 100)
           /\ (ret.route = "Manual Review") <=> ~DamagePresent(rec)

\* C8: with an empty missing list, a record whose description is absent
\* (key missing, or key present without a value) does not match the fraud
\* gate: the injury gate and then the damage gate decide, and the call
\* neither raises nor returns Investigation Queue.
C8_AbsentDescriptionSkipsFraudGate ==
    (/\ CalledRoute
     /\ call.missing_fields = <<>>
     /\ Get(call.flattened_data, "description_of_accident") = None) =>
        /\ ret.exc = "none"
        /\ ret.route # "Investigation Queue"
        /\ ret.route = IF IsInjury(call.flattened_data) THEN "Specialist Queue"
                       ELSE ThresholdRoute(call.flattened_data)

(***************************************************************************)
(* validate_fields and the classifier                                      *)
(***************************************************************************)
\* the position of a field in the mandatory list, 0 for any other name
Position(field) ==
    IF \E j \in 1..Len(MANDATORY_FIELDS) : MANDATORY_FIELDS[j] = field
    THEN CHOOSE j \in 1..Len(MANDATORY_FIELDS) : MANDATORY_FIELDS[j] = field
    ELSE 0

\* the value of the field in the record is absent or empty
AbsentOrEmpty(rec, field) ==
    \/ field \notin DOMAIN rec
    \/ rec[field] = None
    \/ rec[field] = Str(<<>>)

CalledValidate == call.op = "validate_fields" /\ ret # Unset

\* C4: validate_fields returns a duplicate-free subsequence of
\* MANDATORY_FIELDS in declaration order that holds a mandatory field iff its
\* value in the record is absent or empty; no other field appears.
C4_ValidateExactlyMissing ==
    CalledValidate =>
        LET m == ret.missing
            rec == call.flattened_data
        IN /\ \A i \in 1..Len(m) : Position(m[i]) > 0
           /\ \A i, k \in 1..Len(m) : i < k => Position(m[i]) < Position(m[k])
           /\ \A j \in 1..Len(MANDATORY_FIELDS) :
                 (\E i \in 1..Len(m) : m[i] = MANDATORY_FIELDS[j])
                    <=> AbsentOrEmpty(rec, MANDATORY_FIELDS[j])

\* a record without the policyholder_name key, with an empty claim_type and a
\* blank but non-empty policy_number has been validated
C4_Witness ==
    /\ CalledValidate
    /\ "policyholder_name" \notin DOMAIN call.flattened_data
    /\ Get(call.flattened_data, "claim_type") = Str(<<>>)
    /\ Get(call.flattened_data, "policy_number") = Str(<<" ">>)
    /\ ret.missing = <<"policyholder_name", "claim_type">>

\* the term occurs in the case-folded text
OccursFolded(term, text) ==
    \E i \in 1..Len(text) :
        \/ LowerTok(text[i]) = term
        \/ LowerTok(text[i]) \in DOMAIN Embedded /\ Embedded[LowerTok(text[i])] = term

InjuryTerms == {"injury", "injured", "hospital", "medical", "ambulance", "bodily"}

\* the texts that differ from text in the letter case of one token
CaseVariants(text) ==
    UNION {{[text EXCEPT ![i] = tk] :
                tk \in {x \in ClassifyVocabulary : LowerTok(x) = LowerTok(text[i])}} :
           i \in 1..Len(text)}

CalledClassify == call.op = "determine_claim_type" /\ ret # Unset

\* C9: the classifier returns exactly one of the four claim types by a
\* priority cascade over the case-folded text: injury iff an injury term
\* occurs, else property_damage iff property or damage occurs, else collision
\* iff collision or accident occurs, else auto; the letter case of the text
\* does not change the outcome.
C9_ClassifierCascade ==
    CalledClassify =>
        LET text == call.text
            inj == \E k \in InjuryTerms : OccursFolded(k, text)
            prop == OccursFolded("property", text) \/ OccursFolded("damage", text)
            coll == OccursFolded("collision", text) \/ OccursFolded("accident", text)
        IN /\ ret.claim_type \in ClaimTypes
           /\ (ret.claim_type = "injury") <=> inj
           /\ (ret.claim_type = "property_damage") <=> (~inj /\ prop)
           /\ (ret.claim_type = "collision") <=> (~inj /\ ~prop /\ coll)
           /\ (ret.claim_type = "auto") <=> (~inj /\ ~prop /\ ~coll)
           /\ \A v \in CaseVariants(text) : determine_claim_type(v) = ret.claim_type

\* a text with a damage term, a collision term and a capitalised injury term
\* has been classified as injury
C9_Witness ==
    /\ CalledClassify
    /\ call.text = <<"Damage", "ACCIDENT", "Injured">>
    /\ ret.claim_type = "injury"

(***************************************************************************)
(* The pipeline                                                            *)
(***************************************************************************)
FlatKeySet == {FlatKeys[i] : i \in 1..Len(FlatKeys)}

Finished(w) == pc[w] = "done"

\* C5: in every result of the pipeline a non-empty missingFields forces
\* Manual Review, whatever the description, claim type and damage are, and
\* missingFields is exactly the mandatory fields that are absent or empty in
\* the extractedFields of the same result, in declaration order.
C5_MissingForcesManualReview ==
    \A w \in DOMAIN pc :
        Finished(w) =>
            /\ result[w].missingFields # <<>> => result[w].recommendedRoute = "Manual Review"
            /\ result[w].missingFields =
                  MissingOf({MANDATORY_FIELDS[j] : j \in
                      {i \in 1..Len(MANDATORY_FIELDS) :
                          AbsentOrEmpty(result[w].extractedFields, MANDATORY_FIELDS[i])}})

\* a result with a missing field, a fraud keyword in the description, claim
\* type injury and a damage above the threshold
C5_Witness ==
    \E w \in DOMAIN pc :
        /\ Finished(w)
        /\ result[w].missingFields = <<"policy_number">>
        /\ HasFraudKeyword(result[w].extractedFields)
        /\ IsInjury(result[w].extractedFields)
        /\ result[w].extractedFields["estimated_damage"] = Float(5000000)
        /\ result[w].recommendedRoute = "Manual Review"

\* C6: the flat record assembled from any text has exactly the 18 fixed
\* keys, each mapped to a value or to None.
C6_ExactlyEighteenKeys ==
    \A w \in DOMAIN pc :
        flattened[w] # Unset =>
            /\ DOMAIN flattened[w] = FlatKeySet
            /\ Cardinality(DOMAIN flattened[w]) = 18
            /\ \A k \in FlatKeySet : flattened[w][k].t \in {"None", "str", "float"}

\* a record flattened from a text in which the optional patterns did not
\* match, so that the nested dictionaries lack their keys
C6_Witness ==
    \E w \in DOMAIN pc :
        /\ flattened[w] # Unset
        /\ ~AcquisitionFails(doc[w])
        /\ "effective_date" \notin DOMAIN extracted[w].policy_information
        /\ "time" \notin DOMAIN extracted[w].incident_information
        /\ "contact_phone" \notin DOMAIN extracted[w].involved_parties
        /\ "vehicle_description" \notin DOMAIN extracted[w].asset_details
        /\ "estimated_damage" \notin DOMAIN extracted[w].asset_details
        /\ flattened[w]["estimated_damage"] = None
        /\ flattened[w]["policy_number"] # None

\* process_claim on a fresh instance, as one computation
FreshResult(d) ==
    LET f == flatten_extracted_data(extract_from_pdf(d))
        m == validate_fields(f)
        r == route_claim(f, m)
    IN [extractedFields |-> f, missingFields |-> m, recommendedRoute |-> r.route,
        reasoning |-> r.reasoning]

\* C7: whatever documents the workers process through one instance and
\* however their steps interleave, each result is the result for that
\* document alone, and the attributes of the instance keep the values
\* __init__ gave them.
C7_NoStateAcrossDocuments ==
    /\ attrs = InitAttrs
    /\ \A w \in DOMAIN pc :
          /\ pc[w] # "raised"
          /\ Finished(w) => result[w] = FreshResult(doc[w])

\* two workers have finished different documents on the same instance, with
\* different routes
C7_Witness ==
    /\ Finished("w1") /\ Finished("w2")
    /\ doc["w1"] # doc["w2"]
    /\ result["w1"].recommendedRoute = "Investigation Queue"
    /\ result["w2"].recommendedRoute = "Fast-Track"

AllSixMissing ==
    "Missing mandatory fields: policy_number, policyholder_name, date_of_loss, "
    \o "location_of_loss, description_of_accident, claim_type"

RECURSIVE NamedInOrder(_, _)
\* the first n names of the list, each once, in the order given, with ", "
\* between two names
NamedInOrder(names, n) ==
    IF n = 0 THEN ""
    ELSE IF n = 1 THEN names[1]
    ELSE NamedInOrder(names, n - 1) \o ", " \o names[n]

\* C11: with a non-empty missing list route_claim returns Manual Review and
\* a reasoning that names every element of the list exactly once, in the
\* order given, and holds no sentence of the fraud, injury or damage gate.
C11_ReasoningNamesMissing ==
    (CalledRoute /\ call.missing_fields # <<>>) =>
        /\ ret.exc = "none"
        /\ ret.route = "Manual Review"
        /\ ret.reasoning =
              "Missing mandatory fields: "
              \o NamedInOrder(call.missing_fields, Len(call.missing_fields))

\* a call with two missing fields, a fraud keyword in the description, claim
\* type injury and a damage below the threshold has returned
C11_Witness ==
    /\ CalledRoute
    /\ call.missing_fields = <<"date_of_loss", "claim_type">>
    /\ HasFraudKeyword(call.flattened_data)
    /\ IsInjury(call.flattened_data)
    /\ Get(call.flattened_data, "estimated_damage") = Float(0)
    /\ ret.reasoning = "Missing mandatory fields: date_of_loss, claim_type"

(***************************************************************************)
(* The field extractor                                                     *)
(***************************************************************************)
RECURSIVE Collapsed(_, _, _)
\* the text with every run of whitespace between two words replaced by one
\* space and the leading and trailing whitespace dropped: out is the part
\* already produced, gap tells whether whitespace was passed since
Collapsed(s, out, gap) ==
    IF s = <<>> THEN out
    ELSE IF Head(s) \in Whitespace THEN Collapsed(Tail(s), out, TRUE)
    ELSE Collapsed(Tail(s),
                   (IF gap /\ out # <<>> THEN out \o <<" ">> ELSE out) \o <<Head(s)>>,
                   FALSE)

\* the places of the text where the pattern matches
MatchPlaces(text, pattern) == {i \in 1..Len(text) : text[i].site = pattern}

\* the first capturing group of the first match in document order
FirstGroup(text, pattern) ==
    text[CHOOSE i \in MatchPlaces(text, pattern) :
            \A j \in MatchPlaces(text, pattern) : i <= j].g1

CalledExtract == call.op = "extract_field" /\ ret # Unset

\* C12: _extract_field returns None iff the pattern has no match or the
\* first group of the first match normalizes to the empty string; otherwise
\* it returns that group with every whitespace run collapsed to one space and
\* no leading or trailing whitespace, never an empty string, and normalizing
\* the returned value again leaves it unchanged.
C12_ExtractFieldNormalizes ==
    CalledExtract =>
        LET places == MatchPlaces(call.text, call.pattern)
            blank == \A i \in 1..Len(FirstGroup(call.text, call.pattern)) :
                        FirstGroup(call.text, call.pattern)[i] \in Whitespace
            v == ret.value
        IN /\ (v = None) <=> (places = {} \/ blank)
           /\ v # None =>
                /\ v.t = "str"
                /\ v.v # <<>>
                /\ v.v[1] \notin Whitespace
                /\ v.v[Len(v.v)] \notin Whitespace
                /\ \A i \in 1..Len(v.v) : v.v[i] \in Whitespace => v.v[i] = " "
                /\ \A i \in 1..(Len(v.v) - 1) :
                      ~(v.v[i] \in Whitespace /\ v.v[i + 1] \in Whitespace)
                /\ v.v = Collapsed(FirstGroup(call.text, call.pattern), <<>>, FALSE)
                /\ extract_field(<<Segment(call.pattern, v.v, <<>>)>>, call.pattern) = v

\* the pattern matches twice; the first match holds two words between
\* whitespace with a newline, and its normalized text was returned
C12_Witness ==
    /\ CalledExtract
    /\ Len(call.text) = 2
    /\ call.text[1] = Segment("p", <<"\n", "a", "\n", "b">>, <<>>)
    /\ call.text[2].site = "p"
    /\ ret.value = Str(<<"a", " ", "b">>)

(***************************************************************************)
(* What the routing depends on                                             *)
(***************************************************************************)
\* the record with the policyholder name replaced, or its key removed
WithName(rec, n) ==
    IF n = NoKey
    THEN [k \in DOMAIN rec \ {"policyholder_name"} |-> rec[k]]
    ELSE ("policyholder_name" :> n) @@ rec

\* a fraud keyword occurs in the policyholder name
FraudInName(rec) ==
    LET n == Get(rec, "policyholder_name") IN
    /\ n.t = "str"
    /\ \E i \in 1..Len(n.v), k \in 1..Len(FRAUD_KEYWORDS) : LowerTok(n.v[i]) = FRAUD_KEYWORDS[k]

\* C13: the outcome of route_claim depends only on the missing list and on
\* the description, claim type and damage of the record: every call that
\* differs only in another field has the same outcome; a fraud keyword in
\* the policyholder name does not give Investigation Queue, and with an
\* empty missing list Manual Review comes from the damage gate only.
C13_RouteReadsThreeFields ==
    CalledRoute =>
        /\ \A n \in RouteNames :
              route_claim(WithName(call.flattened_data, n), call.missing_fields) = ret
        /\ (FraudInName(call.flattened_data) /\ ~HasFraudKeyword(call.flattened_data))
              => ret.route # "Investigation Queue"
        /\ (call.missing_fields = <<>> /\ ret.route = "Manual Review")
              => (~DamagePresent(call.flattened_data)
                  /\ ret.reasoning = DamageMissingSentence)

\* a call with a fraud keyword in the policyholder name only and an empty
\* missing list was routed by its damage
C13_Witness ==
    /\ CalledRoute
    /\ call.missing_fields = <<>>
    /\ FraudInName(call.flattened_data)
    /\ Get(call.flattened_data, "description_of_accident") = Str(<<"Rear", " ", "ended">>)
    /\ ret.route = "Fast-Track"

(***************************************************************************)
(* The sentence of the damage-threshold gate                               *)
(***************************************************************************)
\* the amounts of RouteDamages, in cents, as format(x, ',.2f') writes them
AmountText(cents) ==
    CASE cents = 0 -> "0.00"
      [] cents = 2499999 -> "24,999.99"
      [] cents = 2500000 -> "25,000.00"
      [] cents = 2500001 -> "25,000.01"
      [] cents = 123456789 -> "1,234,567.89"
      [] OTHER -> "?"

BelowSentence(cents) ==
    "Estimated damage ($" \o AmountText(cents) \o ") is below fast-track threshold ($25,000)"

ExceedsSentence(cents) ==
    "Estimated damage ($" \o AmountText(cents) \o ") exceeds fast-track threshold ($25,000)"

\* C14: the reasoning of the damage-threshold gate is true of the record:
\* for a present estimated_damage d, "d is below the threshold" is returned
\* only when d < 25000 and "d exceeds the threshold" only when d > 25000,
\* d = 25000 included; the amount named is d and the threshold is 25000.
C14_ReasoningTrueOfRecord ==
    (/\ CalledRoute
     /\ ret.exc = "none"
     /\ DamagePresent(call.flattened_data)) =>
        LET d == Get(call.flattened_data, "estimated_damage").v IN
        /\ (ret.reasoning = BelowSentence(d)) => d < 25000 * 100
        /\ (ret.reasoning = ExceedsSentence(d)) => d > 25000 * 100
        /\ (ret.route \in {"Fast-Track", "Standard Processing"})
              => ret.reasoning \in {BelowSentence(d), ExceedsSentence(d)}

(***************************************************************************)
(* The damage estimate                                                     *)
(***************************************************************************)
ParsableEstimate == Segment("estimate", <<"5", "0", "0", "0", "0">>, <<>>)

\* the text with a parsable estimate at its estimate sites, or with one added
WithEstimate(text) ==
    IF \E i \in 1..Len(text) : text[i].site = "estimate"
    THEN [i \in 1..Len(text) |->
            IF text[i].site = "estimate" THEN ParsableEstimate ELSE text[i]]
    ELSE text \o <<ParsableEstimate>>

\* the number, in cents, the captures of the estimate pattern denote once
\* their commas are removed; None where nothing is left to parse
EstimateNumber(capture) ==
    CASE capture = <<",">> -> None
      [] capture = <<"0">> -> Float(0)
      [] capture = <<"2", "4", ",", "9", "9", "9", ".", "9", "9">> -> Float(2499999)
      [] capture = <<"2", "5", ",", "0", "0", "0", ".", "0", "0">> -> Float(2500000)
      [] capture = <<"5", "0", "0", "0", "0">> -> Float(5000000)
      [] capture = <<"1", "0", ",", "0", "0", "0", ".", "0", "0">> -> Float(1000000)
      [] OTHER -> Unset

\* C15: a failure of the damage estimate costs that one field only: when the
\* estimate pattern does not match, or the capture without its commas does
\* not parse, assembly completes, estimated_damage is None in the flat
\* record and the other 17 fields are those of the same text with a
\* parsable estimate; when it parses, estimated_damage is the number
\* without the commas (10,000.00 gives 10000).
C15_EstimateFailureIsLocal ==
    \A w \in DOMAIN pc :
        (pc[w] \in {"validate", "route", "done"} /\ ~AcquisitionFails(doc[w])) =>
            LET text == FullText(doc[w])
                m == re_search("estimate", text)
                other == flatten_extracted_data(
                            extract_from_pdf([open_ok |-> TRUE, pages |-> <<WithEstimate(text)>>]))
            IN /\ flattened[w] # Unset
               /\ flattened[w]["estimated_damage"] =
                     (IF m = NoMatch THEN None ELSE EstimateNumber(m.g1))
               /\ other["estimated_damage"] = Float(5000000)
               /\ \A k \in FlatKeySet \ {"estimated_damage"} : flattened[w][k] = other[k]

\* a record assembled from a text whose estimate capture is a lone comma:
\* the key is set to None and the fields assembled after it are there
C15_Witness ==
    \E w \in DOMAIN pc :
        /\ flattened[w] # Unset
        /\ ~AcquisitionFails(doc[w])
        /\ re_search("estimate", FullText(doc[w])) # NoMatch
        /\ re_search("estimate", FullText(doc[w])).g1 = <<",">>
        /\ "estimated_damage" \in DOMAIN extracted[w].asset_details
        /\ flattened[w]["estimated_damage"] = None
        /\ flattened[w]["policy_number"] = Str(<<"ABC-123">>)
        /\ flattened[w]["claim_type"] = Str(<<"injury">>)
        /\ flattened[w]["line_of_business"] = Str(<<"AUTO">>)

====
